---- MODULE Spec2Model ----
(***************************************************************************)
(* Model of src/app.py: the LRC lyrics parser / synchroniser (LyricsTile)  *)
(* and the three-column tile carousel (ScrollableAlbumArea).               *)
(*                                                                         *)
(* Strings are sequences of one-character strings, so that strip, find,    *)
(* split and float parsing are computed character by character.            *)
(* A lyric line is the tuple <<time_ms, text>> of the source.              *)
(***************************************************************************)
EXTENDS Integers, Sequences, FiniteSets, TLC

VARIABLES
    lyrics_lines,    \* LyricsTile.lyrics_lines: sequence of <<time_ms, text>>
    current_line,    \* LyricsTile.current_line
    lyrics_labels,   \* LyricsTile.lyrics_labels: sequence of [text, bold]
    has_player,      \* hasattr(LyricsTile, 'player')
    player_position, \* last position handed to player.setPosition (-1: none)
    lrc_input,       \* the LRC document waiting to be parsed (parser runs)
    emitted,         \* history: the entries in the order parse_lrc appended them
    call,            \* history: the last LyricsTile operation, argument, outcome
    tiles,           \* ScrollableAlbumArea.tiles
    current_index,   \* ScrollableAlbumArea.current_index
    layout,          \* the grid's three columns of row 0
    activated,       \* history: what the last carousel operation did
    hist             \* history: scroll operations since the last add_tile

lyricsVars == <<lyrics_lines, current_line, lyrics_labels, has_player,
                player_position, lrc_input, emitted, call>>
carouselVars == <<tiles, current_index, layout, activated, hist>>
vars == <<lyrics_lines, current_line, lyrics_labels, has_player,
          player_position, lrc_input, emitted, call,
          tiles, current_index, layout, activated, hist>>

-----------------------------------------------------------------------------
(* Bounds *)

MaxLines == 2      \* lines of an LRC document
MaxTags == 2       \* bracketed tags of an LRC document
FracDigits == 4    \* fractional digits kept of a float (inputs are binary-exact)
MaxTiles == 5      \* tiles added to the carousel
MaxOps == 3        \* scroll operations remembered in hist

-----------------------------------------------------------------------------
(* Python string primitives *)

IsSpace(c) == c \in {" ", "\t"}

RECURSIVE lstrip(_)
lstrip(s) == IF s # <<>> /\ IsSpace(Head(s)) THEN lstrip(Tail(s)) ELSE s

RECURSIVE rstrip(_)
rstrip(s) ==
    IF s # <<>> /\ IsSpace(s[Len(s)]) THEN rstrip(SubSeq(s, 1, Len(s) - 1)) ELSE s

strip(s) == rstrip(lstrip(s))

\* str.find from position i (0-based): index of the first occurrence, else -1
RECURSIVE FindFrom(_, _, _)
FindFrom(s, c, i) ==
    IF i >= Len(s) THEN -1
    ELSE IF s[i + 1] = c THEN i
    ELSE FindFrom(s, c, i + 1)

find(s, c) == FindFrom(s, c, 0)

RECURSIVE split(_, _)
split(s, c) ==
    LET k == find(s, c)
    IN  IF k = -1 THEN <<s>>
        ELSE <<SubSeq(s, 1, k)>> \o split(SubSeq(s, k + 2, Len(s)), c)

startswith(s, c) == s # <<>> /\ Head(s) = c

-----------------------------------------------------------------------------
(* float(): an optional sign, digits with at most one point and at least   *)
(* one digit, surrounding whitespace ignored.  The alphabet of the inputs  *)
(* has no exponent letter, underscore, "inf" or "nan".  A value is held    *)
(* as an integer number of 10^-FracDigits units.                           *)

RECURSIVE Pow10(_)
Pow10(n) == IF n = 0 THEN 1 ELSE 10 * Pow10(n - 1)

Unit == Pow10(FracDigits)

IsDigit(c) == c \in {"0", "1", "2", "3", "4", "5", "6", "7", "8", "9"}

DigitVal(c) ==
    CASE c = "0" -> 0 [] c = "1" -> 1 [] c = "2" -> 2 [] c = "3" -> 3
      [] c = "4" -> 4 [] c = "5" -> 5 [] c = "6" -> 6 [] c = "7" -> 7
      [] c = "8" -> 8 [] c = "9" -> 9

RECURSIVE DigitsVal(_)
DigitsVal(s) ==
    IF s = <<>> THEN 0
    ELSE 10 * DigitsVal(SubSeq(s, 1, Len(s) - 1)) + DigitVal(s[Len(s)])

Unsigned(s) == IF startswith(s, "-") \/ startswith(s, "+") THEN Tail(s) ELSE s

FloatOK(str) ==
    LET u == Unsigned(strip(str))
        p == split(u, ".")
    IN  /\ Len(p) \in {1, 2}
        /\ \A i \in 1..Len(p) : \A j \in 1..Len(p[i]) : IsDigit(p[i][j])
        /\ \E i \in 1..Len(p) : p[i] # <<>>

FloatVal(str) ==
    LET t == strip(str)
        u == Unsigned(t)
        p == split(u, ".")
        frac == IF Len(p) = 2 THEN p[2] ELSE <<>>
        kept == SubSeq(frac \o [i \in 1..FracDigits |-> "0"], 1, FracDigits)
        mag == DigitsVal(p[1]) * Unit + DigitsVal(kept)
    IN  IF startswith(t, "-") THEN 0 - mag ELSE mag

\* int(x * 1000) for x = n / d: truncation toward zero, computed without
\* forming n * 1000
MillisOf(n, d) ==
    LET a == IF n >= 0 THEN n ELSE 0 - n
        q == (a \div d) * 1000 + ((a % d) * 1000) \div d
    IN  IF n >= 0 THEN q ELSE 0 - q

-----------------------------------------------------------------------------
(* LyricsTile: parsing *)

parse_lrc_time(time_str) ==
    LET parts == split(SubSeq(time_str, 2, Len(time_str) - 1), ":")
    IN  IF Len(parts) # 2 \/ ~FloatOK(parts[1]) \/ ~FloatOK(parts[2])
        THEN 0
        ELSE MillisOf(FloatVal(parts[1]) * 60 + FloatVal(parts[2]), Unit)

\* variant: a time of 0 is admitted as well
TagAccepted_ge(time_ms) == time_ms >= 0

\* the `> 0` test that admits a parsed time into time_tags
TagAccepted(time_ms) == time_ms > 0

\* the while loop over the leading tags of one line
RECURSIVE ScanTags(_, _)
ScanTags(text, time_tags) ==
    IF startswith(text, "[")
    THEN LET time_end == find(text, "]")
         IN  IF time_end = -1
             THEN [time_tags |-> time_tags, text |-> text]
             ELSE LET time_str == SubSeq(text, 1, time_end + 1)
                      time_ms == parse_lrc_time(time_str)
                  IN  ScanTags(strip(SubSeq(text, time_end + 2, Len(text))),
                               IF TagAccepted(time_ms)
                               THEN Append(time_tags, time_ms)
                               ELSE time_tags)
    ELSE [time_tags |-> time_tags, text |-> text]

\* the entries one line of the document appends to lyrics_lines
LineEntries(raw) ==
    LET line == strip(raw)
    IN  IF line = <<>> \/ ~startswith(line, "[")
        THEN <<>>
        ELSE LET r == ScanTags(line, <<>>)
             IN  IF r.text # <<>>
                 THEN [i \in 1..Len(r.time_tags) |-> <<r.time_tags[i], r.text>>]
                 ELSE <<>>

RECURSIVE AllEntries(_)
AllEntries(ls) ==
    IF ls = <<>> THEN <<>> ELSE LineEntries(Head(ls)) \o AllEntries(Tail(ls))

\* the sort key: lambda x: x[0]
SortKey(x) == x[1]

\* variant: an element goes before the elements of equal key
RECURSIVE InsertByKey_before(_, _)
InsertByKey_before(sorted, x) ==
    IF sorted = <<>> THEN <<x>>
    ELSE IF SortKey(Head(sorted)) < SortKey(x)
         THEN <<Head(sorted)>> \o InsertByKey_before(Tail(sorted), x)
         ELSE <<x>> \o sorted

\* list.sort(key=...): stable, an element goes after the elements whose key
\* is not greater
RECURSIVE InsertByKey(_, _)
InsertByKey(sorted, x) ==
    IF sorted = <<>> THEN <<x>>
    ELSE IF SortKey(Head(sorted)) <= SortKey(x)
         THEN <<Head(sorted)>> \o InsertByKey(Tail(sorted), x)
         ELSE <<x>> \o sorted

RECURSIVE SortLines(_)
SortLines(s) ==
    IF s = <<>> THEN <<>>
    ELSE InsertByKey(SortLines(SubSeq(s, 1, Len(s) - 1)), s[Len(s)])

PlaceholderText == <<"n", "o", "n", "e">>

\* update_lyrics_display: one grey label per line, or the placeholder label
LabelsFor(lines) ==
    IF lines = <<>>
    THEN <<[text |-> PlaceholderText, bold |-> FALSE]>>
    ELSE [i \in 1..Len(lines) |-> [text |-> lines[i][2], bold |-> FALSE]]

-----------------------------------------------------------------------------
(* LRC documents fed to the parser.  A document is a sequence of lines; a   *)
(* line is a sequence of tags (indices into TagPool) and a trailing text    *)
(* (index into TextPool).  Render gives the characters the parser reads.    *)
(* The columns valid/ms/clean record what each piece denotes in the LRC     *)
(* format; the parser never sees them.                                      *)

TagPool ==
    << [str |-> <<"[", "0", ":", "1", "]">>, valid |-> TRUE, ms |-> 1000],
       [str |-> <<"[", "0", "1", ":", "0", "2", ".", "5", "0", "]">>,
        valid |-> TRUE, ms |-> 62500],
       [str |-> <<"[", "0", "0", ":", "0", "0", ".", "0", "0", "]">>,
        valid |-> TRUE, ms |-> 0],
       [str |-> <<"[", "b", "a", "d", "]">>, valid |-> FALSE, ms |-> 0],
       [str |-> <<"[", "t", "i", ":", "x", "]">>, valid |-> FALSE, ms |-> 0] >>

TextPool ==
    << [str |-> <<>>, clean |-> <<>>],
       [str |-> <<"H", "i">>, clean |-> <<"H", "i">>],
       [str |-> <<" ", "y", "o", " ">>, clean |-> <<"y", "o">>] >>

SeqsUpTo(S, n) == UNION {[1..k -> S] : k \in 0..n}

\* the ways to spread k tags, in order, over n lines
Spreads(k, n) ==
    {w \in [1..k -> 1..n] : \A j \in 1..(k - 1) : w[j] <= w[j + 1]}

MakeDoc(flat, w, texts) ==
    [i \in 1..Len(texts) |->
        [tags |-> LET js == {j \in 1..Len(flat) : w[j] = i}
                  IN  IF js = {} THEN <<>>
                      ELSE SubSeq(flat, CHOOSE j \in js : \A m \in js : j <= m,
                                        CHOOSE j \in js : \A m \in js : m <= j),
         text |-> texts[i]]]

\* doc is a document of at most MaxLines lines carrying at most MaxTags tags
IsDocument(doc) ==
    \E k \in 0..MaxTags, n \in 0..MaxLines :
        \E flat \in [1..k -> 1..Len(TagPool)], w \in Spreads(k, n),
           texts \in [1..n -> 1..Len(TextPool)] :
            doc = MakeDoc(flat, w, texts)

\* documents of whole tracks: one tag per line (or none), the same text
TrackLines == [tags : {<<>>, <<1>>, <<2>>}, text : {2}]

TrackDocuments == SeqsUpTo(TrackLines, MaxLines)

Positions == {-1, 0, 999, 1000, 62499, 62500, 70000}

RECURSIVE RenderTags(_)
RenderTags(ts) ==
    IF ts = <<>> THEN <<>> ELSE TagPool[Head(ts)].str \o RenderTags(Tail(ts))

RenderLine(l) == RenderTags(l.tags) \o TextPool[l.text].str

RECURSIVE Render(_)
Render(doc) ==
    IF doc = <<>> THEN <<>>
    ELSE IF Len(doc) = 1 THEN RenderLine(doc[1])
    ELSE RenderLine(Head(doc)) \o <<"\n">> \o Render(Tail(doc))

-----------------------------------------------------------------------------
(* LyricsTile: operations *)

NoCall == [op |-> "init", arg |-> 0, res |-> "none"]

LyricsInit ==
    /\ lyrics_lines = <<>>
    /\ current_line = 0
    /\ lyrics_labels = <<>>
    /\ has_player = FALSE
    /\ player_position = -1
    /\ emitted = <<>>
    /\ call = NoCall

\* parse_lrc as a function of the text and the labels shown before
parse_lrc(lrc_text, labels) ==
    IF lrc_text = <<>>
    THEN [lines |-> <<>>, labels |-> labels, emitted |-> <<>>]
    ELSE LET e == AllEntries(split(lrc_text, "\n"))
             sorted == SortLines(e)
         IN  [lines |-> sorted, labels |-> LabelsFor(sorted), emitted |-> e]

ParseLrc(doc) ==
    \E r \in {parse_lrc(Render(doc), lyrics_labels)} :
        /\ lyrics_lines' = r.lines
        /\ lyrics_labels' = r.labels
        /\ emitted' = r.emitted
        /\ lrc_input' = doc

\* a parser run: parse_lrc on the pending document
ParseRun ==
    /\ call.op = "init"
    /\ ParseLrc(lrc_input)
    /\ call' = [op |-> "parse_lrc", arg |-> 0, res |-> "none"]
    /\ UNCHANGED <<current_line, has_player, player_position>>
    /\ UNCHANGED carouselVars

update_lyrics(doc) ==
    /\ current_line' = -1
    /\ ParseLrc(doc)
    /\ call' = [op |-> "update_lyrics", arg |-> 0, res |-> "none"]
    /\ UNCHANGED <<has_player, player_position>>
    /\ UNCHANGED carouselVars

\* variant: running off the end of the list leaves no line active
RECURSIVE ScanLines_reset(_, _, _, _)
ScanLines_reset(lines, position, i, found) ==
    IF i >= Len(lines) THEN -1
    ELSE IF lines[i + 1][1] > position THEN found
    ELSE ScanLines_reset(lines, position, i + 1, i)

\* the scan of update_position: the last index before the first time > position
RECURSIVE ScanLines(_, _, _, _)
ScanLines(lines, position, i, found) ==
    IF i >= Len(lines) THEN found
    ELSE IF lines[i + 1][1] > position THEN found
    ELSE ScanLines(lines, position, i + 1, i)

\* variant: the label one below the located line is made bold
Highlight_offby1(labels, line) ==
    [i \in 1..Len(labels) |-> [text |-> labels[i].text, bold |-> (i = line)]]

\* the restyling loop: label `line` bold, every other label grey
Highlight(labels, line) ==
    [i \in 1..Len(labels) |-> [text |-> labels[i].text, bold |-> (i - 1 = line)]]

update_position(position) ==
    /\ call' = [op |-> "update_position", arg |-> position, res |-> "none"]
    /\ IF lyrics_lines = <<>>
       THEN UNCHANGED <<current_line, lyrics_labels>>
       ELSE LET found == ScanLines(lyrics_lines, position, 0, -1)
            IN  IF found # current_line
                THEN /\ lyrics_labels' = Highlight(lyrics_labels, found)
                     /\ current_line' = found
                ELSE UNCHANGED <<current_line, lyrics_labels>>
    /\ UNCHANGED <<lyrics_lines, has_player, player_position, lrc_input, emitted>>
    /\ UNCHANGED carouselVars

\* variant: the timestamp of the first line
SeekTime_first(lines, i) == lines[1][1]

\* time_ms = self.lyrics_lines[i][0]
SeekTime(lines, i) == lines[i + 1][1]

\* a click on label i (0-based); i = -1 is a click that hits no label
on_lyrics_click(i) ==
    /\ IF i >= 0 /\ i < Len(lyrics_lines)
       THEN IF has_player
            THEN /\ player_position' = SeekTime(lyrics_lines, i)
                 /\ call' = [op |-> "on_lyrics_click", arg |-> i, res |-> "seek"]
            ELSE /\ UNCHANGED player_position
                 /\ call' = [op |-> "on_lyrics_click", arg |-> i, res |-> "none"]
       ELSE /\ UNCHANGED player_position
            /\ call' = [op |-> "on_lyrics_click", arg |-> i, res |-> "none"]
    /\ UNCHANGED <<lyrics_lines, current_line, lyrics_labels, has_player,
                   lrc_input, emitted>>
    /\ UNCHANGED carouselVars

\* TilesPlayer.setup_ui: self.lyrics.player = self.audio_player.player
attach_player ==
    /\ ~has_player
    /\ has_player' = TRUE
    /\ call' = [op |-> "attach_player", arg |-> 0, res |-> "none"]
    /\ UNCHANGED <<lyrics_lines, current_line, lyrics_labels, player_position,
                   lrc_input, emitted>>
    /\ UNCHANGED carouselVars

-----------------------------------------------------------------------------
(* ScrollableAlbumArea *)

NoTile == [id |-> -1, music_path |-> FALSE]

EmptyLayout == <<NoTile, NoTile, NoTile>>

CarouselInit ==
    /\ tiles = <<>>
    /\ current_index = 0
    /\ layout = EmptyLayout
    /\ activated = [op |-> "init", center |-> NoTile, clicked |-> FALSE]
    /\ hist = [start |-> 0, ops |-> <<>>, more |-> FALSE]

\* QGridLayout.addWidget(w, 0, col): a widget sits in one cell only, so a
\* widget that is already laid out moves to the new cell
addWidget(cells, w, col) ==
    [c \in 1..3 |-> IF c = col + 1 THEN w
                    ELSE IF cells[c] = w THEN NoTile ELSE cells[c]]

\* variant: no wrap-around
VisibleIdx_nomod(index, i, n) == index + i

\* the tile index the loop of update_visible_tiles shows in column i
VisibleIdx(index, i, n) == (index + i) % n

RECURSIVE FillColumns(_, _, _, _)
FillColumns(cells, ts, index, i) ==
    IF i >= 3 THEN cells
    ELSE LET idx == VisibleIdx(index, i, Len(ts))
         IN  FillColumns(IF idx < Len(ts)
                         THEN addWidget(cells, ts[idx + 1], i)
                         ELSE cells,
                         ts, index, i + 1)

\* update_visible_tiles: empty the layout, then fill the three columns
update_visible_tiles(ts, index) == FillColumns(EmptyLayout, ts, index, 0)

Remember(h, op) ==
    IF Len(h.ops) < MaxOps
    THEN [h EXCEPT !.ops = Append(@, op)]
    ELSE [h EXCEPT !.more = TRUE]

\* variant: rotation allowed from 3 tiles on
ScrollDisabled_lt(n) == n < 3

\* the guard shared by scroll_left and scroll_right
ScrollDisabled(n) == n <= 3

LeftIndex(index, n) == (index - 1) % n

RightIndex(index, n) == (index + 1) % n

scroll_left ==
    /\ IF ScrollDisabled(Len(tiles))
       THEN UNCHANGED <<current_index, layout>>
       ELSE /\ current_index' = LeftIndex(current_index, Len(tiles))
            /\ layout' = update_visible_tiles(tiles, current_index')
    /\ activated' = [op |-> "scroll_left", center |-> NoTile, clicked |-> FALSE]
    /\ hist' = Remember(hist, "L")
    /\ UNCHANGED tiles
    /\ UNCHANGED lyricsVars

scroll_right ==
    /\ IF ScrollDisabled(Len(tiles))
       THEN UNCHANGED <<current_index, layout>>
       ELSE /\ current_index' = RightIndex(current_index, Len(tiles))
            /\ layout' = update_visible_tiles(tiles, current_index')
    /\ activated' = [op |-> "scroll_right", center |-> NoTile, clicked |-> FALSE]
    /\ hist' = Remember(hist, "R")
    /\ UNCHANGED tiles
    /\ UNCHANGED lyricsVars

\* the guard of play_current
PlayDisabled(n) == n <= 3

CenterIdx(index, n) == (index + 1) % n

\* play_current: the centre tile, and whether its clicked signal is emitted
play_current ==
    /\ IF PlayDisabled(Len(tiles))
       THEN activated' = [op |-> "play_current", center |-> NoTile,
                          clicked |-> FALSE]
       ELSE LET center_tile == tiles[CenterIdx(current_index, Len(tiles)) + 1]
            IN  activated' = [op |-> "play_current", center |-> center_tile,
                              clicked |-> center_tile.music_path]
    /\ UNCHANGED <<tiles, current_index, layout, hist>>
    /\ UNCHANGED lyricsVars

\* add_tile: tiles are fresh AlbumTile objects, numbered in insertion order;
\* music_path is whether the tile has a path (the drop-target tile has none)
add_tile(tile) ==
    /\ Len(tiles) < MaxTiles
    /\ tiles' = Append(tiles, tile)
    /\ layout' = update_visible_tiles(tiles', current_index)
    /\ activated' = [op |-> "add_tile", center |-> NoTile, clicked |-> FALSE]
    /\ hist' = [start |-> current_index, ops |-> <<>>, more |-> FALSE]
    /\ UNCHANGED current_index
    /\ UNCHANGED lyricsVars

\* what the layout shows, left to right
Displayed == SelectSeq(layout, LAMBDA w : w # NoTile)

-----------------------------------------------------------------------------
(* Specifications *)

\* parser runs: a fresh LyricsTile and one document, parsed once
InitParse ==
    /\ LyricsInit
    /\ IsDocument(lrc_input)
    /\ CarouselInit

NextParse == ParseRun

SpecParse == InitParse /\ [][NextParse]_vars

\* the lyrics tile driven by track changes, position ticks and clicks
InitLyrics ==
    /\ LyricsInit
    /\ lrc_input = <<>>
    /\ CarouselInit

NextLyrics ==
    \/ \E doc \in TrackDocuments : update_lyrics(doc)
    \/ \E position \in Positions : update_position(position)
    \/ \E i \in -1..(Len(lyrics_labels) - 1) : on_lyrics_click(i)
    \/ attach_player

SpecLyrics == InitLyrics /\ [][NextLyrics]_vars

\* the carousel driven by additions and the three buttons
InitCarousel ==
    /\ LyricsInit
    /\ lrc_input = <<>>
    /\ CarouselInit

NextCarousel ==
    \/ \E b \in BOOLEAN : add_tile([id |-> Len(tiles), music_path |-> b])
    \/ scroll_left
    \/ scroll_right
    \/ play_current

SpecCarousel == InitCarousel /\ [][NextCarousel]_vars

-----------------------------------------------------------------------------
(* Vocabulary of the properties *)

Max(S) == CHOOSE x \in S : \A y \in S : y <= x

\* the index (0-based) of the last line whose timestamp is <= p, else -1
LastAtOrBefore(lines, p) ==
    LET S == {i \in 1..Len(lines) : lines[i][1] <= p}
    IN  IF S = {} THEN -1 ELSE Max(S) - 1

Count(seq, x) == Cardinality({i \in 1..Len(seq) : seq[i] = x})

Range(seq) == {seq[i] : i \in 1..Len(seq)}

SameBag(a, b) ==
    /\ Len(a) = Len(b)
    /\ \A x \in Range(a) \cup Range(b) : Count(a, x) = Count(b, x)

ValidTags(l) == SelectSeq(l.tags, LAMBDA t : TagPool[t].valid)

\* what the LRC format says one line denotes: one entry per valid tag
Denoted(l) ==
    LET v == ValidTags(l)
    IN  IF TextPool[l.text].clean = <<>> THEN <<>>
        ELSE [i \in 1..Len(v) |-> <<TagPool[v[i]].ms, TextPool[l.text].clean>>]

RECURSIVE DenotedAll(_)
DenotedAll(doc) ==
    IF doc = <<>> THEN <<>> ELSE Denoted(Head(doc)) \o DenotedAll(Tail(doc))

WithoutMalformed(doc) ==
    [k \in 1..Len(doc) |-> [tags |-> ValidTags(doc[k]), text |-> doc[k].text]]

Parsed == call.op = "parse_lrc"

Ids(ws) == [i \in 1..Len(ws) |-> ws[i].id]

-----------------------------------------------------------------------------
(* C1: after update_position(p) the stored active index is the index of   *)
(* the last line whose timestamp is <= p, and -1 when no line has a        *)
(* timestamp <= p.                                                         *)
C1_LocateStored ==
    call.op = "update_position"
        => current_line = LastAtOrBefore(lyrics_lines, call.arg)

(* C2: every line with one or more valid leading tags and a non-empty      *)
(* trailing text yields exactly one entry per valid tag, with that text     *)
(* and the tag's timestamp, for every valid timestamp >= 0.                 *)
C2_OnePerValidTag ==
    (/\ Parsed
     /\ \A k \in 1..Len(lrc_input) :
            /\ ValidTags(lrc_input[k]) # <<>>
            /\ TextPool[lrc_input[k].text].clean # <<>>)
        => SameBag(lyrics_lines, DenotedAll(lrc_input))

(* C3: in every reachable state of the lyrics tile, a track with zero      *)
(* lines has active index -1.                                               *)
C3_EmptyTrackIndex == lyrics_lines = <<>> => current_line = -1

C5_VisibleWindow ==
    tiles # <<>>
        => IF Len(tiles) > 3
           THEN Displayed =
                    [i \in 1..3 |-> tiles[((current_index + i - 1) % Len(tiles)) + 1]]
           ELSE Displayed = tiles

(* C6: play_current yields no tile only when the carousel is empty; with   *)
(* more than 3 tiles it selects tiles[(current_index+1) mod len], with 1 to *)
(* 3 tiles the tile at position 1, or the last tile of a single-tile set.   *)
C6_CenterItem ==
    activated.op = "play_current"
        => /\ (activated.center = NoTile) <=> (tiles = <<>>)
           /\ Len(tiles) > 3
                => activated.center = tiles[((current_index + 1) % Len(tiles)) + 1]
           /\ Len(tiles) \in 2..3 => activated.center = tiles[2]
           /\ Len(tiles) = 1 => activated.center = tiles[1]

(* C7: scroll_left / scroll_right change nothing (index, window) when the   *)
(* carousel holds 3 or fewer tiles; otherwise the index steps down / up by  *)
(* one with wrap-around and stays within [0, len).                          *)
C7_Rotate ==
    [][/\ activated'.op = "scroll_left"
          => IF Len(tiles) <= 3
             THEN current_index' = current_index /\ layout' = layout
             ELSE /\ current_index' =
                        (IF current_index = 0 THEN Len(tiles) - 1
                         ELSE current_index - 1)
                  /\ current_index' \in 0..(Len(tiles) - 1)
       /\ activated'.op = "scroll_right"
          => IF Len(tiles) <= 3
             THEN current_index' = current_index /\ layout' = layout
             ELSE /\ current_index' =
                        (IF current_index = Len(tiles) - 1 THEN 0
                         ELSE current_index + 1)
                  /\ current_index' \in 0..(Len(tiles) - 1)]_vars

\* a left rotation that wrapped from index 0 to the last tile
C7_Witness ==
    /\ activated.op = "scroll_left"
    /\ Len(tiles) = 4
    /\ hist = [start |-> 0, ops |-> <<"L">>, more |-> FALSE]
    /\ current_index = 3

\* the scenario: 5 tiles, start index 0, then the given rotations
Scenario(ops) ==
    /\ Len(tiles) = 5
    /\ hist = [start |-> 0, ops |-> ops, more |-> FALSE]

(* C8 as stated: 5 items, start index 0: window [0,1,2]; after one          *)
(* RotateRight [1,2,3]; after two further RotateLeft [0,1,2] again.         *)
C8_ScenarioAsStated ==
    /\ Scenario(<<>>) => Ids(Displayed) = <<0, 1, 2>>
    /\ Scenario(<<"R">>) => Ids(Displayed) = <<1, 2, 3>>
    /\ Scenario(<<"R", "L", "L">>) => Ids(Displayed) = <<0, 1, 2>>

(* C8 amended: 5 items, start index 0: window [0,1,2]; after one            *)
(* RotateRight [1,2,3]; one further RotateLeft restores [0,1,2]; the second *)
(* further RotateLeft wraps to [4,0,1].                                     *)
C8_Scenario ==
    /\ Scenario(<<>>) => Ids(Displayed) = <<0, 1, 2>>
    /\ Scenario(<<"R">>) => Ids(Displayed) = <<1, 2, 3>>
    /\ Scenario(<<"R", "L">>) => Ids(Displayed) = <<0, 1, 2>>
    /\ Scenario(<<"R", "L", "L">>) => Ids(Displayed) = <<4, 0, 1>>

C8_Witness ==
    /\ Scenario(<<"R", "L", "L">>)
    /\ current_index = 4
    /\ Ids(Displayed) = <<4, 0, 1>>

(* C9: a malformed tag contributes no entry and does not stop parsing: the  *)
(* result is that of the document with its malformed tags removed, so       *)
(* [bad][0:1]Hi yields exactly one line at 1000 ms and a line whose tags    *)
(* are all malformed yields nothing.                                        *)
C9_MalformedDropped ==
    Parsed =>
        /\ lyrics_lines =
               parse_lrc(Render(WithoutMalformed(lrc_input)), <<>>).lines
        /\ lrc_input = <<[tags |-> <<4, 1>>, text |-> 2]>>
               => lyrics_lines = << <<1000, <<"H", "i">>>> >>
        /\ (\A k \in 1..Len(lrc_input) : ValidTags(lrc_input[k]) = <<>>)
               => lyrics_lines = <<>>

C9_Witness ==
    /\ Parsed
    /\ lrc_input = <<[tags |-> <<4, 1>>, text |-> 2]>>
    /\ lyrics_lines = << <<1000, <<"H", "i">>>> >>

(* C10: after every parse lyrics_lines is sorted ascending by timestamp,    *)
(* and lines with equal timestamps keep the order in which they were        *)
(* emitted.                                                                 *)
C10_StableSorted ==
    Parsed =>
        /\ \A i \in 1..(Len(lyrics_lines) - 1) :
               lyrics_lines[i][1] <= lyrics_lines[i + 1][1]
        /\ Len(lyrics_lines) = Len(emitted)
        /\ \A t \in {e[1] : e \in Range(emitted) \cup Range(lyrics_lines)} :
               SelectSeq(lyrics_lines, LAMBDA e : e[1] = t)
                   = SelectSeq(emitted, LAMBDA e : e[1] = t)

\* two lines tie on the timestamp and stay in the order of the document,
\* which is not the order of their texts
C10_Witness ==
    /\ Parsed
    /\ emitted = << <<1000, <<"y", "o">>>>, <<1000, <<"H", "i">>>> >>
    /\ lyrics_lines = emitted

\* the index update_position computes for a position on the current track
Located(lines, position) == ScanLines(lines, position, 0, -1)

(* C11: the active index is monotonic non-decreasing in the position: on a  *)
(* fixed track, t1 < t2 gives an index for t1 that is <= the index for t2,  *)
(* both as computed by the scan and as stored by successive position ticks. *)
C11_LocateMonotonic ==
    [][/\ \A t1, t2 \in Positions :
              t1 < t2 => Located(lyrics_lines', t1) <= Located(lyrics_lines', t2)
       /\ (/\ call.op = "update_position"
           /\ call'.op = "update_position"
           /\ call.arg < call'.arg)
              => current_line <= current_line']_vars

\* a later tick on a two-line track has moved the index from line 0 to line 1
C11_Witness ==
    /\ call.op = "update_position"
    /\ Len(lyrics_lines) = 2
    /\ lyrics_lines[1][1] < lyrics_lines[2][1]
    /\ call.arg >= lyrics_lines[2][1]
    /\ current_line = 1
    /\ Located(lyrics_lines, 1000) = 0

BoldLabels(labels) == {i \in 1..Len(labels) : labels[i].bold}

(* C12: after any interleaving of update_lyrics and update_position, on a   *)
(* non-empty track the bold label is exactly the one at current_line (none  *)
(* when current_line = -1); update_lyrics replaces the line list wholesale  *)
(* and resets current_line to -1; update_position restyles and changes      *)
(* current_line only when the located index differs from the stored one,    *)
(* and then current_line is the index located for that position.            *)
C12_CursorHighlight ==
    [][/\ lyrics_lines' # <<>>
          => /\ Len(lyrics_labels') = Len(lyrics_lines')
             /\ BoldLabels(lyrics_labels') =
                    (IF current_line' = -1 THEN {} ELSE {current_line' + 1})
       /\ call'.op = "update_lyrics"
          => /\ current_line' = -1
             /\ lyrics_lines' = parse_lrc(Render(lrc_input'), <<>>).lines
       /\ call'.op = "update_position"
          => /\ (current_line' # current_line \/ lyrics_labels' # lyrics_labels)
                => /\ LastAtOrBefore(lyrics_lines, call'.arg) # current_line
                   /\ current_line' = LastAtOrBefore(lyrics_lines, call'.arg)
             /\ lyrics_lines # <<>>
                => current_line' = LastAtOrBefore(lyrics_lines, call'.arg)
             /\ lyrics_lines' = lyrics_lines]_vars

\* a tick has made the second label of a two-line track the bold one
C12_Witness ==
    /\ call.op = "update_position"
    /\ Len(lyrics_lines) = 2
    /\ current_line = 1
    /\ BoldLabels(lyrics_labels) = {2}

====
